---- MODULE Spec2Model ----
(***************************************************************************)
(* Sovereign Filter: classification of inbound messages against the        *)
(* urgency table, the in-memory batch queue, the silent archive and the    *)
(* dispatch bridge.                                                        *)
(*                                                                         *)
(* Execution model: one JavaScript event loop.  The code between two       *)
(* network awaits runs to completion, so every action below is either the  *)
(* synchronous start of a call up to its first network request, or the     *)
(* arrival of one backend response together with the whole continuation    *)
(* that the response resumes.                                              *)
(*                                                                         *)
(* Strings that the code inspects character by character (sender ids, row  *)
(* keys) are sequences of one-character strings; an optional field is      *)
(* None or Some(v).  Pass-through fields that no decision depends on       *)
(* (SenderName, Provider, Surface, SessionKey, OriginatingTo) are left out *)
(* of the message records.                                                 *)
(***************************************************************************)
EXTENDS Integers, Sequences, FiniteSets, TLC

\* ------------------------------------------------------------------------
\* Bounds of the model
\* ------------------------------------------------------------------------
NumCalls == 2

\* Clock: one tick is a third of an hour, so that elapsed times have
\* fractions of an hour on either side of one half; the run starts one tick
\* before midnight.
TicksPerHour == 3
TicksPerDay == 24 * TicksPerHour
StartTime == TicksPerDay - 1

\* ------------------------------------------------------------------------
\* Optional values and the ?? operator
\* ------------------------------------------------------------------------
None == <<>>
Some(v) == <<v>>
Coalesce(opt, default) == IF opt = None THEN default ELSE opt[1]

Empty == <<>>

\* ------------------------------------------------------------------------
\* normalizeRowKey
\* ------------------------------------------------------------------------
Unreserved == {"a", "b", "s", "Z", "0", "1", "2", "3", "4", "5", "C", "F",
               "-", "_", ".", "!", "~", "*", "'", "(", ")"}

PercentEncode(ch) ==
  CASE ch = "/"  -> <<"%", "2", "F">>
    [] ch = "\\" -> <<"%", "5", "C">>
    [] ch = "#"  -> <<"%", "2", "3">>
    [] ch = "?"  -> <<"%", "3", "F">>
    [] ch = "%"  -> <<"%", "2", "5">>
    [] ch = "$"  -> <<"%", "2", "4">>
    [] ch = " "  -> <<"%", "2", "0">>
    [] ch = "@"  -> <<"%", "4", "0">>
    [] OTHER     -> <<ch>>

RECURSIVE encodeURIComponent(_)
encodeURIComponent(raw) ==
  IF raw = <<>> THEN <<>>
  ELSE (IF Head(raw) \in Unreserved THEN <<Head(raw)>> ELSE PercentEncode(Head(raw)))
       \o encodeURIComponent(Tail(raw))

\* Variant: the percent signs of the encoding are kept.
normalizeRowKey_KeepsPercent(raw) == encodeURIComponent(raw)

normalizeRowKey(raw) ==
  LET enc == encodeURIComponent(raw)
  IN [i \in 1..Len(enc) |-> IF enc[i] = "%" THEN "$" ELSE enc[i]]

\* A UTF-16 code unit that is half of a surrogate pair, on its own.
\* encodeURIComponent throws URIError for a string that contains one.
LoneSurrogate == "\\uD800"

isWellFormed(raw) == \A i \in 1..Len(raw) : raw[i] # LoneSurrogate

\* A call of normalizeRowKey: the key, or the URIError of encodeURIComponent.
normalizeRowKeyCall(raw) ==
  IF isWellFormed(raw) THEN [threw |-> FALSE, key |-> normalizeRowKey(raw)]
  ELSE [threw |-> TRUE, key |-> << >>]

\* ------------------------------------------------------------------------
\* Dates
\* ------------------------------------------------------------------------
toISOString(t) == [date |-> t \div TicksPerDay, time |-> t % TicksPerDay]
getTime(iso) == iso.date * TicksPerDay + iso.time

\* ------------------------------------------------------------------------
\* Senders and message contexts
\* ------------------------------------------------------------------------
Alice == <<"a">>
Bob == <<"b", "/">>
Stranger == <<"s">>

Ctx(senderId, from, body, sid) ==
  [SenderId |-> senderId, From |-> from, Body |-> body, MessageSid |-> sid]

\* The inbound messages of the model: every shape of the identity fields
\* (present, empty string, absent), with and without a body and a
\* channel-provided message id.
MsgContext ==
  { Ctx(Some(Alice), Some(Alice), Some("hi"), Some("m1")),
    Ctx(Some(Bob), None, Some("hi"), Some("m1")),
    Ctx(None, Some(Bob), None, None),
    Ctx(Some(Stranger), Some(Bob), Some("hi"), Some("m1")),
    Ctx(Some(Empty), Some(Bob), Some("hi"), Some("m1")),
    Ctx(Some(Empty), Some(Empty), Some("hi"), None),
    Ctx(None, None, None, Some("m1")) }

NoCtx == [SenderId |-> None, From |-> None, Body |-> None, MessageSid |-> None]

\* ------------------------------------------------------------------------
\* Backend errors
\* ------------------------------------------------------------------------
NoError == [hasStatusCode |-> FALSE, statusCode |-> 0]
NotFound == [hasStatusCode |-> TRUE, statusCode |-> 404]
ServerError == [hasStatusCode |-> TRUE, statusCode |-> 500]
NetworkError == [hasStatusCode |-> FALSE, statusCode |-> -1]
BackendFaults == {ServerError, NetworkError}

isNotFoundError(err) == err.hasStatusCode /\ err.statusCode = 404

\* ------------------------------------------------------------------------
\* State
\* ------------------------------------------------------------------------
VARIABLES registry, archive, queue, call, now, unhandledRejections

\* A caller exercising a MessageBatchQueue directly: what the last drain
\* returned, the messages handed to enqueue since the last drain, the array
\* the last peek returned, the last operation, and the enqueue calls so far.
VARIABLES drained, sinceDrain, peeked, lastOp, enqueueCalls

\* A caller of normalizeRowKey: its argument and what the call produced.
VARIABLES rawId, rowKey

\* A caller of generateRelationshipNudges: config.nudgeAfterSilentHours and
\* what the call returned.
VARIABLES nudgeAfterSilentHours, nudges

queueVars == <<drained, sinceDrain, peeked, lastOp, enqueueCalls>>
keyVars == <<rawId, rowKey>>
nudgeVars == <<nudgeAfterSilentHours, nudges>>

\* A caller of the storage client's own operations: the record it holds from
\* a lookup or listing, the outcome of its last operation and the number of
\* operations made.
VARIABLES direct

\* The messages all drains of the shared batch queue have returned so far, in
\* the order returned.
VARIABLES delivered

storageVars == <<direct>>
batchVars == <<delivered>>

vars == <<registry, archive, queue, call, now, unhandledRejections,
          queueVars, keyVars, nudgeVars, storageVars, batchVars>>

\* DEFAULT_SOVEREIGN_FILTER_CONFIG.nudgeAfterSilentHours
DefaultNudgeAfterSilentHours == 72

Calls == 1..NumCalls

PK_CONTACTS == "contacts"

Contact(id, name, priority) ==
  [partitionKey |-> PK_CONTACTS, rowKey |-> normalizeRowKey(id), displayName |-> name,
   isPriority |-> priority, lastMessageAt |-> None, lastRepliedAt |-> None, notes |-> None]

IdleCall ==
  [pc |-> "idle", ctx |-> NoCtx, enabled |-> FALSE, queueGiven |-> FALSE,
   contact |-> None, classified |-> None, outcome |-> None, returned |-> None,
   lookupFault |-> None, thrown |-> None, touch |-> "none", touchReq |-> None, archReq |-> None,
   localQueue |-> <<>>, lookups |-> 0, enqueued |-> 0, archiveWrites |-> 0,
   markedComplete |-> FALSE, dispatched |-> FALSE, replyResolverInvoked |-> FALSE,
   effects |-> << >>]

\* No call of dispatchWithSovereignFilter has started; nothing is archived.
InitCalls ==
  /\ archive = << >>
  /\ call = [c \in Calls |-> IdleCall]
  /\ unhandledRejections = 0

\* The storage client has not been used directly yet.
IdleDirect == [op |-> "none", senderId |-> << >>, threw |-> FALSE, backendErr |-> NoError,
               held |-> None, ops |-> 0]

InitDirect == direct = IdleDirect

\* A new MessageBatchQueue on which nothing has been called.
InitQueue ==
  /\ queue = << >>
  /\ delivered = << >>
  /\ drained = None /\ sinceDrain = << >> /\ peeked = None
  /\ lastOp = "none" /\ enqueueCalls = 0

\* The urgency table the operator has set up: a priority contact and a
\* non-priority one.
UrgencyTable ==
  (normalizeRowKey(Alice) :> Contact(Alice, "Alice", TRUE))
  @@ (normalizeRowKey(Bob) :> Contact(Bob, "Bob", FALSE))

Init ==
  /\ registry = UrgencyTable
  /\ now = StartTime
  /\ InitCalls
  /\ InitQueue
  /\ rawId = << >> /\ rowKey = None
  /\ nudgeAfterSilentHours = DefaultNudgeAfterSilentHours /\ nudges = None
  /\ InitDirect

\* ------------------------------------------------------------------------
\* Storage client (pure parts)
\* ------------------------------------------------------------------------
Unknown == <<"u", "n", "k", "n", "o", "w", "n">>

\* A backend response: the entity on success, the error otherwise.
Response(ok, entity, err) == [ok |-> ok, entity |-> entity, err |-> err]

\* listEntities: the records of the contacts partition, in the order the
\* backend enumerates them.
listContacts(reg) ==
  LET keys == {k \in DOMAIN reg : reg[k].partitionKey = PK_CONTACTS}
      n == Cardinality(keys)
  IN { [i \in 1..n |-> reg[order[i]]] :
         order \in {f \in [1..n -> keys] : \A i, j \in 1..n : f[i] = f[j] => i = j} }

\* urgencyClient.getEntity: the row if it exists, 404 if it does not, or a
\* backend fault in either case.
GetEntityResponses(key) ==
  (IF key \in DOMAIN registry
     THEN {Response(TRUE, Some(registry[key]), NoError)}
     ELSE {Response(FALSE, None, NotFound)})
  \cup {Response(FALSE, None, e) : e \in BackendFaults}

\* Variant: every lookup error is taken for "not found".
getContact_SwallowsAllErrors(resp) ==
  IF resp.ok THEN [threw |-> FALSE, value |-> resp.entity, err |-> NoError]
  ELSE [threw |-> FALSE, value |-> None, err |-> NoError]

\* getContact: undefined on 404, rethrows everything else.
getContact(resp) ==
  IF resp.ok THEN [threw |-> FALSE, value |-> resp.entity, err |-> NoError]
  ELSE IF isNotFoundError(resp.err) THEN [threw |-> FALSE, value |-> None, err |-> NoError]
  ELSE [threw |-> TRUE, value |-> None, err |-> resp.err]

\* The updateEntity request that touchContactLastMessage sends.
TouchRequest(senderId, t) ==
  [partitionKey |-> PK_CONTACTS, rowKey |-> normalizeRowKey(senderId),
   lastMessageAt |-> toISOString(t)]

\* urgencyClient.updateEntity(..., "Merge"): 404 when the row is missing.
UpdateEntityResponses(key) ==
  (IF key \in DOMAIN registry
     THEN {Response(TRUE, None, NoError)}
     ELSE {Response(FALSE, None, NotFound)})
  \cup {Response(FALSE, None, e) : e \in BackendFaults}

\* Variant: the update replaces the entity by the fields of the request.
updateEntityMerge_Replace(reg, req) ==
  [reg EXCEPT ![req.rowKey] =
     [partitionKey |-> req.partitionKey, rowKey |-> req.rowKey, displayName |-> "",
      isPriority |-> FALSE, lastMessageAt |-> Some(req.lastMessageAt),
      lastRepliedAt |-> None, notes |-> None]]

\* updateEntity in Merge mode, accepted by the backend: the fields of the
\* request overwrite those of the stored entity, the others are kept.
updateEntityMerge(reg, req) ==
  [reg EXCEPT ![req.rowKey].lastMessageAt = Some(req.lastMessageAt)]

\* Variant: the catch block rethrows a 404 as well.
touchContactLastMessage_RethrowsNotFound(resp) ==
  IF resp.ok THEN [threw |-> FALSE, err |-> NoError]
  ELSE [threw |-> TRUE, err |-> resp.err]

\* touchContactLastMessage's catch block: only a 404 is ignored.
touchContactLastMessage(resp) ==
  IF resp.ok THEN [threw |-> FALSE, err |-> NoError]
  ELSE IF ~isNotFoundError(resp.err) THEN [threw |-> TRUE, err |-> resp.err]
  ELSE [threw |-> FALSE, err |-> NoError]

\* The entity upsertContact sends: the entry with the contacts partition and
\* its rowKey passed through normalizeRowKey.
upsertContact(entry) ==
  [entry EXCEPT !.partitionKey = PK_CONTACTS, !.rowKey = normalizeRowKey(entry.rowKey)]

\* upsertEntity in Merge mode, accepted by the backend: the row is inserted
\* if its key is new; otherwise the defined fields of the entity overwrite
\* the stored ones and the undefined ones are kept.
upsertEntityMerge(reg, entity) ==
  IF entity.rowKey \in DOMAIN reg
    THEN [reg EXCEPT ![entity.rowKey] =
            [f \in DOMAIN entity |->
               IF f \in {"lastMessageAt", "lastRepliedAt", "notes"} /\ entity[f] = None
                 THEN reg[entity.rowKey][f] ELSE entity[f]]]
    ELSE (entity.rowKey :> entity) @@ reg

\* archiveClient.upsertEntity(entity, "Replace")
UpsertEntityResponses ==
  {Response(TRUE, None, NoError)} \cup {Response(FALSE, None, e) : e \in BackendFaults}

archiveNoise(store, entity) ==
  (<<entity.partitionKey, entity.rowKey>> :> entity) @@ store

\* Variant: From is not consulted when SenderId is absent.
EffectiveSenderId_IgnoresFrom(ctx) == Coalesce(ctx.SenderId, Empty)

\* ------------------------------------------------------------------------
\* Filter (pure parts)
\* ------------------------------------------------------------------------
EffectiveSenderId(ctx) == Coalesce(ctx.SenderId, Coalesce(ctx.From, Empty))

\* Variant: the priority flag is not consulted.
classifySenderResult_IgnoresPriority(contact) ==
  IF contact # None
    THEN [classification |-> "known-human", contactEntry |-> contact]
    ELSE [classification |-> "system-noise", contactEntry |-> None]

\* Variant: an unknown sender is treated as a known human.
classifySenderResult_UnknownIsKnown(contact) ==
  IF contact # None
    THEN [classification |-> IF contact[1].isPriority THEN "priority-human" ELSE "known-human",
          contactEntry |-> contact]
    ELSE [classification |-> "known-human", contactEntry |-> None]

classifySenderResult(contact) ==
  IF contact # None
    THEN [classification |-> IF contact[1].isPriority THEN "priority-human" ELSE "known-human",
          contactEntry |-> contact]
    ELSE [classification |-> "system-noise", contactEntry |-> None]

\* Variant: a queue that holds at most two messages.
enqueue_DropsWhenFull(q, msg) == IF Len(q) >= 2 THEN q ELSE Append(q, msg)

\* Variant: drain returns the messages but does not clear the queue.
drain_KeepsQueue(q) == [batch |-> q, queue |-> q]

\* Variant: peek returns the oldest message only.
peek_OnlyFirst(q) == IF q = << >> THEN q ELSE <<q[1]>>

\* MessageBatchQueue: enqueue pushes onto this.queue, drain returns a copy
\* and replaces this.queue by a new array, peek returns this.queue itself.
enqueue(q, msg) == Append(q, msg)
drain(q) == [batch |-> q, queue |-> << >>]
peek(q) == q
size(q) == Len(q)

\* Variant: the body is not carried over.
BatchedMessage_DropsBody(c, ctx, t) ==
  [call |-> c, senderId |-> EffectiveSenderId(ctx), body |-> "",
   receivedAt |-> toISOString(t)]

\* The BatchedMessage built by applySovereignFilter; call identifies the
\* message object.
BatchedMessage(c, ctx, t) ==
  [call |-> c, senderId |-> EffectiveSenderId(ctx), body |-> Coalesce(ctx.Body, ""),
   receivedAt |-> toISOString(t)]

\* The entity built by archiveSystemNoise.
ArchivedNoiseEntity(c, ctx, t) ==
  [partitionKey |-> toISOString(t).date,
   rowKey |-> IF ctx.MessageSid # None THEN <<"sid", ctx.MessageSid[1]>> ELSE <<"gen", t, c>>,
   senderId |-> Coalesce(ctx.SenderId, Coalesce(ctx.From, Unknown)),
   body |-> Coalesce(ctx.Body, ""),
   receivedAt |-> toISOString(t)]

\* Variant: every outcome reports the deliver-raw action.
Outcome_ActionAlwaysDeliverRaw(action, classification) ==
  [action |-> "deliver-raw", classification |-> classification]

Outcome(action, classification) == [action |-> action, classification |-> classification]

DispatchResult(intercepted, outcome) == [intercepted |-> intercepted, outcome |-> outcome]

\* Variant: a batched message falls through to normal dispatch.
dispatchSwitch_BatchFallsThrough(r) ==
  IF r.outcome[1].action \in {"deliver-raw", "batch"}
    THEN [r EXCEPT !.pc = "dispatching", !.dispatched = TRUE]
    ELSE [r EXCEPT !.pc = "done", !.markedComplete = TRUE,
                   !.returned = Some([intercepted |-> TRUE, outcome |-> r.outcome[1]])]

\* dispatchWithSovereignFilter after applySovereignFilter has returned
\* r.outcome: normal dispatch for deliver-raw, markComplete otherwise.
dispatchSwitch(r) ==
  IF r.outcome[1].action = "deliver-raw"
    THEN [r EXCEPT !.pc = "dispatching", !.dispatched = TRUE]
    ELSE [r EXCEPT !.pc = "done", !.markedComplete = TRUE,
                   !.returned = Some(DispatchResult(TRUE, r.outcome[1]))]

\* Variant: the priority case lacks its return and falls into the known case.
applySovereignFilterSwitch_PriorityFallsThrough(r, c, t) ==
  LET cls == r.classified[1].classification
      sid == EffectiveSenderId(r.ctx)
  IN IF cls \in {"priority-human", "known-human"}
       THEN dispatchSwitch([r EXCEPT !.touch = "pending",
                                     !.touchReq = Some(TouchRequest(sid, t)),
                                     !.enqueued = @ + 1,
                                     !.localQueue = IF r.queueGiven THEN @
                                                    ELSE enqueue(@, BatchedMessage(c, r.ctx, t)),
                                     !.outcome = Some(Outcome("batch", "known-human"))])
       ELSE [r EXCEPT !.pc = "archiving", !.archReq = Some(ArchivedNoiseEntity(c, r.ctx, t))]

\* Variant: noise is put on the batch queue as well as archived.
applySovereignFilterSwitch_NoiseEnqueued(r, c, t) ==
  LET cls == r.classified[1].classification
      sid == EffectiveSenderId(r.ctx)
  IN CASE cls = "priority-human" ->
            dispatchSwitch([r EXCEPT !.touch = "pending",
                                     !.touchReq = Some(TouchRequest(sid, t)),
                                     !.outcome = Some(Outcome("deliver-raw", "priority-human"))])
       [] cls = "known-human" ->
            dispatchSwitch([r EXCEPT !.touch = "pending",
                                     !.touchReq = Some(TouchRequest(sid, t)),
                                     !.enqueued = @ + 1,
                                     !.localQueue = IF r.queueGiven THEN @
                                                    ELSE enqueue(@, BatchedMessage(c, r.ctx, t)),
                                     !.outcome = Some(Outcome("batch", "known-human"))])
       [] cls = "system-noise" ->
            [r EXCEPT !.pc = "archiving", !.archReq = Some(ArchivedNoiseEntity(c, r.ctx, t)),
                      !.enqueued = @ + 1,
                      !.localQueue = IF r.queueGiven THEN @
                                     ELSE enqueue(@, BatchedMessage(c, r.ctx, t))]

\* Variant: the archive write is not awaited.
applySovereignFilterSwitch_ArchiveNotAwaited(r, c, t) ==
  LET cls == r.classified[1].classification
      sid == EffectiveSenderId(r.ctx)
  IN CASE cls = "priority-human" ->
            dispatchSwitch([r EXCEPT !.touch = "pending",
                                     !.touchReq = Some(TouchRequest(sid, t)),
                                     !.outcome = Some(Outcome("deliver-raw", "priority-human"))])
       [] cls = "known-human" ->
            dispatchSwitch([r EXCEPT !.touch = "pending",
                                     !.touchReq = Some(TouchRequest(sid, t)),
                                     !.enqueued = @ + 1,
                                     !.localQueue = IF r.queueGiven THEN @
                                                    ELSE enqueue(@, BatchedMessage(c, r.ctx, t)),
                                     !.outcome = Some(Outcome("batch", "known-human"))])
       [] cls = "system-noise" ->
            dispatchSwitch([r EXCEPT !.archReq = Some(ArchivedNoiseEntity(c, r.ctx, t)),
                                     !.outcome = Some(Outcome("archive", "system-noise"))])

\* Variant: the known-human case returns without having enqueued.
applySovereignFilterSwitch_ReturnsBeforeEnqueue(r, c, t) ==
  LET cls == r.classified[1].classification
      sid == EffectiveSenderId(r.ctx)
  IN CASE cls = "priority-human" ->
            dispatchSwitch([r EXCEPT !.touch = "pending",
                                     !.touchReq = Some(TouchRequest(sid, t)),
                                     !.effects = @ \o <<"touch">>,
                                     !.outcome = Some(Outcome("deliver-raw", "priority-human"))])
       [] cls = "known-human" ->
            dispatchSwitch([r EXCEPT !.touch = "pending",
                                     !.touchReq = Some(TouchRequest(sid, t)),
                                     !.effects = @ \o <<"touch">>,
                                     !.outcome = Some(Outcome("batch", "known-human"))])
       [] cls = "system-noise" ->
            [r EXCEPT !.pc = "archiving", !.archReq = Some(ArchivedNoiseEntity(c, r.ctx, t)),
                      !.effects = @ \o <<"archive">>]

\* The switch of applySovereignFilter, entered with r.classified set;
\* effects lists the calls the case makes, in the order it makes them.
applySovereignFilterSwitch(r, c, t) ==
  LET cls == r.classified[1].classification
      sid == EffectiveSenderId(r.ctx)
  IN CASE cls = "priority-human" ->
            dispatchSwitch([r EXCEPT !.touch = "pending",
                                     !.touchReq = Some(TouchRequest(sid, t)),
                                     !.effects = @ \o <<"touch">>,
                                     !.outcome = Some(Outcome("deliver-raw", "priority-human"))])
       [] cls = "known-human" ->
            dispatchSwitch([r EXCEPT !.touch = "pending",
                                     !.touchReq = Some(TouchRequest(sid, t)),
                                     !.effects = @ \o <<"touch", "enqueue">>,
                                     !.enqueued = @ + 1,
                                     !.localQueue = IF r.queueGiven THEN @
                                                    ELSE enqueue(@, BatchedMessage(c, r.ctx, t)),
                                     !.outcome = Some(Outcome("batch", "known-human"))])
       [] cls = "system-noise" ->
            [r EXCEPT !.pc = "archiving", !.archReq = Some(ArchivedNoiseEntity(c, r.ctx, t)),
                      !.effects = @ \o <<"archive">>]

\* classifySender has its contact (or none) and returns; applySovereignFilter
\* goes on to its switch.
afterClassify(r, contact, c, t) ==
  applySovereignFilterSwitch(
    [r EXCEPT !.contact = contact, !.classified = Some(classifySenderResult(contact))], c, t)

\* Variant: the registry is asked whatever the sender id.
classifySender_AlwaysLooksUp(r, c, t) ==
  [r EXCEPT !.pc = "lookup", !.lookups = @ + 1]

\* classifySender up to its await: no lookup for an empty sender id.
classifySender(r, c, t) ==
  IF EffectiveSenderId(r.ctx) = Empty
    THEN afterClassify(r, None, c, t)
    ELSE [r EXCEPT !.pc = "lookup", !.lookups = @ + 1]

\* Variant: the enabled flag is not consulted.
dispatchWithSovereignFilter_IgnoresEnabled(r, c, t) ==
  classifySender(r, c, t)

\* dispatchWithSovereignFilter up to its first await: normal dispatch when
\* the filter is disabled, applySovereignFilter otherwise.
dispatchWithSovereignFilter(r, c, t) ==
  IF ~r.enabled
    THEN [r EXCEPT !.pc = "dispatching", !.dispatched = TRUE]
    ELSE classifySender(r, c, t)

\* ------------------------------------------------------------------------
\* Actions
\* ------------------------------------------------------------------------

\* Variant: the enqueue writes back a queue read before the lookup was
\* awaited, so messages enqueued meanwhile are overwritten.
SharedQueueAfter_Overwrites(r, r2, c) ==
  IF r2.enqueued > r.enqueued /\ r.queueGiven
    THEN <<BatchedMessage(c, r.ctx, now)>>
    ELSE queue

\* The caller's batch queue after call c moved from record r to record r2.
SharedQueueAfter(r, r2, c) ==
  IF r2.enqueued > r.enqueued /\ r.queueGiven
    THEN enqueue(queue, BatchedMessage(c, r.ctx, now))
    ELSE queue

\* A channel hands a message to dispatchWithSovereignFilter; the call runs up
\* to its first network request.  filterConfig is enabled or not; batchQueue
\* is the caller's queue or absent (absent: a new MessageBatchQueue).
StartWith(c, contexts, enableds, queueGivens) ==
  /\ call[c].pc = "idle"
  /\ \A d \in Calls : d < c => call[d].pc # "idle"
  /\ \E cx \in contexts, en \in enableds, qg \in queueGivens :
       /\ ~en => qg
       /\ LET r0 == [IdleCall EXCEPT !.ctx = cx, !.enabled = en, !.queueGiven = qg]
              r1 == dispatchWithSovereignFilter(r0, c, now)
          IN /\ call' = [call EXCEPT ![c] = r1]
             /\ queue' = SharedQueueAfter(r0, r1, c)
  /\ UNCHANGED <<registry, archive, now, unhandledRejections>>
  /\ UNCHANGED <<queueVars, keyVars, nudgeVars, storageVars, batchVars>>

Start(c) == StartWith(c, MsgContext, BOOLEAN, BOOLEAN)

\* The getEntity response arrives: getContact, classifySender, the switch of
\* applySovereignFilter and the switch of dispatchWithSovereignFilter run.
GetEntityResponds(c) ==
  /\ call[c].pc = "lookup"
  /\ \E resp \in GetEntityResponses(normalizeRowKey(EffectiveSenderId(call[c].ctx))) :
       LET r == call[c]
           got == getContact(resp)
           r1 == [r EXCEPT !.lookupFault = IF resp.err \in BackendFaults THEN Some(resp.err)
                                           ELSE None]
           r2 == IF got.threw THEN [r1 EXCEPT !.pc = "fault", !.thrown = Some(got.err)]
                 ELSE afterClassify(r1, got.value, c, now)
       IN /\ call' = [call EXCEPT ![c] = r2]
          /\ queue' = SharedQueueAfter(r, r2, c)
  /\ UNCHANGED <<registry, archive, now, unhandledRejections>>
  /\ UNCHANGED <<queueVars, keyVars, nudgeVars, storageVars, batchVars>>

\* The archive upsert response arrives: archiveSystemNoise returns or throws.
UpsertEntityResponds(c) ==
  /\ call[c].pc = "archiving"
  /\ \E resp \in UpsertEntityResponses :
       LET r == call[c]
       IN IF resp.ok
            THEN /\ archive' = archiveNoise(archive, r.archReq[1])
                 /\ call' = [call EXCEPT ![c] =
                      dispatchSwitch([r EXCEPT !.archiveWrites = @ + 1,
                                               !.outcome = Some(Outcome("archive", "system-noise"))])]
            ELSE /\ archive' = archive
                 /\ call' = [call EXCEPT ![c] = [r EXCEPT !.pc = "fault", !.thrown = Some(resp.err)]]
  /\ UNCHANGED <<registry, queue, now, unhandledRejections>>
  /\ UNCHANGED <<queueVars, keyVars, nudgeVars, storageVars, batchVars>>

\* The updateEntity response of a fire-and-forget touch arrives.
UpdateEntityResponds(c) ==
  /\ call[c].touch = "pending"
  /\ LET req == call[c].touchReq[1]
     IN \E resp \in UpdateEntityResponses(req.rowKey) :
          LET res == touchContactLastMessage(resp)
          IN /\ registry' = IF resp.ok THEN updateEntityMerge(registry, req) ELSE registry
             /\ call' = [call EXCEPT ![c].touch = IF res.threw THEN "rejected" ELSE "settled"]
             /\ unhandledRejections' = IF res.threw THEN unhandledRejections + 1
                                       ELSE unhandledRejections
  /\ UNCHANGED <<archive, queue, now>>
  /\ UNCHANGED <<queueVars, keyVars, nudgeVars, storageVars, batchVars>>

\* dispatchInboundMessage, the normal pipeline: it asks the reply resolver it
\* was given for the reply to the message and sends that reply through the
\* dispatcher (sendFinalReply) before it returns.
dispatchInboundMessage(r) ==
  [r EXCEPT !.replyResolverInvoked = TRUE]

\* dispatchInboundMessage (the normal pipeline) returns its result.
DispatchInboundReturns(c) ==
  /\ call[c].pc = "dispatching"
  /\ call' = [call EXCEPT ![c] =
       [dispatchInboundMessage(call[c]) EXCEPT
          !.pc = "done",
          !.returned = Some(DispatchResult(FALSE,
                              IF call[c].enabled THEN call[c].outcome[1]
                              ELSE Outcome("deliver-raw", "priority-human")))]]
  /\ UNCHANGED <<registry, archive, queue, now, unhandledRejections>>
  /\ UNCHANGED <<queueVars, keyVars, nudgeVars, storageVars, batchVars>>

\* The scheduler drains the shared batch queue.
Drain ==
  /\ queue' = drain(queue).queue
  /\ UNCHANGED <<registry, archive, call, now, unhandledRejections>>
  /\ UNCHANGED <<queueVars, keyVars, nudgeVars, storageVars, batchVars>>

Next ==
  \/ \E c \in Calls : Start(c)
  \/ \E c \in Calls : GetEntityResponds(c)
  \/ \E c \in Calls : UpsertEntityResponds(c)
  \/ \E c \in Calls : UpdateEntityResponds(c)
  \/ \E c \in Calls : DispatchInboundReturns(c)
  \/ Drain

Spec == Init /\ [][Next]_vars

\* ------------------------------------------------------------------------
\* The shared batch queue: messages of a known human, processed by
\* overlapping calls while the scheduler drains the queue
\* ------------------------------------------------------------------------
KnownContexts ==
  { Ctx(Some(Bob), None, Some("hi"), Some("m1")),
    Ctx(None, Some(Bob), None, None) }

StartKnown(c) == StartWith(c, KnownContexts, {TRUE}, BOOLEAN)

\* The scheduler drains the shared batch queue and keeps what it got.
DrainDelivered ==
  /\ queue' = drain(queue).queue
  /\ delivered' = delivered \o drain(queue).batch
  /\ UNCHANGED <<registry, archive, call, now, unhandledRejections>>
  /\ UNCHANGED <<queueVars, keyVars, nudgeVars, storageVars>>

BatchNext ==
  \/ \E c \in Calls : StartKnown(c)
  \/ \E c \in Calls : GetEntityResponds(c)
  \/ \E c \in Calls : UpdateEntityResponds(c)
  \/ DrainDelivered

BatchSpec == Init /\ [][BatchNext]_vars

\* ------------------------------------------------------------------------
\* The archive over time: one system-noise message, delivered by its channel
\* more than once, while the clock advances past midnight
\* ------------------------------------------------------------------------
MaxTicks == 4

Tick ==
  /\ now < StartTime + MaxTicks
  /\ now' = now + 1
  /\ UNCHANGED <<registry, archive, queue, call, unhandledRejections>>
  /\ UNCHANGED <<queueVars, keyVars, nudgeVars, storageVars, batchVars>>

\* The redelivered message: an unregistered sender, channel message id m1.
NoiseContexts == {Ctx(Some(Stranger), Some(Bob), Some("hi"), Some("m1"))}

StartNoise(c) == StartWith(c, NoiseContexts, {TRUE}, {TRUE})

ArchiveNext ==
  \/ \E c \in Calls : StartNoise(c)
  \/ \E c \in Calls : GetEntityResponds(c)
  \/ \E c \in Calls : UpsertEntityResponds(c)
  \/ Tick

ArchiveSpec == Init /\ [][ArchiveNext]_vars

\* ------------------------------------------------------------------------
\* The storage client used directly: lookups, listings, touches and upserts
\* of the record a lookup or listing returned
\* ------------------------------------------------------------------------
MaxStorageOps == 3

SenderIds == {Alice, Bob, Stranger}

\* The caller's state after an operation.
DirectAfter(op, senderId, threw, backendErr, held) ==
  [op |-> op, senderId |-> senderId, threw |-> threw, backendErr |-> backendErr,
   held |-> held, ops |-> direct.ops + 1]

DirectGetContact(senderId) ==
  /\ direct.ops < MaxStorageOps
  /\ \E resp \in GetEntityResponses(normalizeRowKey(senderId)) :
       LET got == getContact(resp)
       IN direct' = DirectAfter("getContact", senderId, got.threw, resp.err,
                                IF got.threw \/ got.value = None THEN direct.held
                                ELSE got.value)
  /\ UNCHANGED <<registry, archive, queue, call, now, unhandledRejections>>
  /\ UNCHANGED <<queueVars, keyVars, nudgeVars, batchVars>>

\* listContacts returns; the caller keeps one of the listed records.
DirectListContacts ==
  /\ direct.ops < MaxStorageOps
  /\ \E contacts \in listContacts(registry) : \E i \in 1..Len(contacts) :
       direct' = DirectAfter("listContacts", << >>, FALSE, NoError, Some(contacts[i]))
  /\ UNCHANGED <<registry, archive, queue, call, now, unhandledRejections>>
  /\ UNCHANGED <<queueVars, keyVars, nudgeVars, batchVars>>

DirectTouchContactLastMessage(senderId) ==
  /\ direct.ops < MaxStorageOps
  /\ LET req == TouchRequest(senderId, now)
     IN \E resp \in UpdateEntityResponses(req.rowKey) :
          /\ registry' = IF resp.ok THEN updateEntityMerge(registry, req) ELSE registry
          /\ direct' = DirectAfter("touchContactLastMessage", senderId,
                                   touchContactLastMessage(resp).threw, resp.err, direct.held)
  /\ UNCHANGED <<archive, queue, call, now, unhandledRejections>>
  /\ UNCHANGED <<queueVars, keyVars, nudgeVars, batchVars>>

\* upsertContact with the record exactly as the lookup or listing returned it.
DirectUpsertContact ==
  /\ direct.ops < MaxStorageOps
  /\ direct.held # None
  /\ \E resp \in UpsertEntityResponses :
       /\ registry' = IF resp.ok THEN upsertEntityMerge(registry, upsertContact(direct.held[1]))
                      ELSE registry
       /\ direct' = DirectAfter("upsertContact", << >>, ~resp.ok, resp.err, direct.held)
  /\ UNCHANGED <<archive, queue, call, now, unhandledRejections>>
  /\ UNCHANGED <<queueVars, keyVars, nudgeVars, batchVars>>

StorageNext ==
  \/ \E senderId \in SenderIds : DirectGetContact(senderId)
  \/ DirectListContacts
  \/ \E senderId \in SenderIds : DirectTouchContactLastMessage(senderId)
  \/ DirectUpsertContact

StorageSpec == Init /\ [][StorageNext]_vars

\* ------------------------------------------------------------------------
\* A MessageBatchQueue used directly by a caller
\* ------------------------------------------------------------------------
MaxEnqueues == 3

\* The messages the caller enqueues (two distinct ones, each any number of
\* times).
QueueMessages ==
  { BatchedMessage(c, Ctx(Some(Bob), None, Some("hi"), None), StartTime) : c \in {1, 2} }

\* An array held by the caller of peek.  peek returns this.queue, not a copy:
\* the held array is the queue's own array (isQueueArray) until drain makes
\* this.queue a new array; items is what the holder reads from it.
HeldArray(isQueueArray, items) == [isQueueArray |-> isQueueArray, items |-> items]

\* The held array after this.queue was changed in place to q.
HeldAfterPush(held, q) ==
  IF held # None /\ held[1].isQueueArray THEN Some(HeldArray(TRUE, q)) ELSE held

\* The held array after drain assigned a new array to this.queue.
HeldAfterDrain(held) ==
  IF held # None THEN Some(HeldArray(FALSE, held[1].items)) ELSE held

QueueEnqueue(msg) ==
  /\ enqueueCalls < MaxEnqueues
  /\ queue' = enqueue(queue, msg)
  /\ peeked' = HeldAfterPush(peeked, queue')
  /\ sinceDrain' = Append(sinceDrain, msg)
  /\ enqueueCalls' = enqueueCalls + 1
  /\ lastOp' = "enqueue"
  /\ UNCHANGED <<registry, archive, call, now, unhandledRejections, drained, keyVars, nudgeVars, storageVars, batchVars>>

QueueDrain ==
  /\ drained' = Some(drain(queue).batch)
  /\ queue' = drain(queue).queue
  /\ peeked' = HeldAfterDrain(peeked)
  /\ sinceDrain' = << >>
  /\ lastOp' = "drain"
  /\ UNCHANGED <<registry, archive, call, now, unhandledRejections, enqueueCalls, keyVars, nudgeVars, storageVars, batchVars>>

QueuePeek ==
  /\ peeked' = Some(HeldArray(TRUE, peek(queue)))
  /\ lastOp' = "peek"
  /\ UNCHANGED <<registry, archive, queue, call, now, unhandledRejections,
                 drained, sinceDrain, enqueueCalls, keyVars, nudgeVars, storageVars, batchVars>>

\* The caller removes the last element of the array peek returned (the
\* readonly of the return type is a compile-time annotation only).
CallerPops ==
  /\ peeked # None /\ peeked[1].items # << >>
  /\ LET items == SubSeq(peeked[1].items, 1, Len(peeked[1].items) - 1)
     IN /\ peeked' = Some(HeldArray(peeked[1].isQueueArray, items))
        /\ queue' = IF peeked[1].isQueueArray THEN items ELSE queue
  /\ lastOp' = "mutate"
  /\ UNCHANGED <<registry, archive, call, now, unhandledRejections,
                 drained, sinceDrain, enqueueCalls, keyVars, nudgeVars, storageVars, batchVars>>

QueueNext ==
  \/ \E msg \in QueueMessages : QueueEnqueue(msg)
  \/ QueueDrain
  \/ QueuePeek

QueueSpec == Init /\ [][QueueNext]_vars

AliasNext ==
  \/ \E msg \in QueueMessages : QueueEnqueue(msg)
  \/ QueueDrain
  \/ QueuePeek
  \/ CallerPops

AliasSpec == Init /\ [][AliasNext]_vars

\* ------------------------------------------------------------------------
\* normalizeRowKey applied to raw sender ids
\* ------------------------------------------------------------------------
MaxKeyLen == 3

\* Characters of a raw id: the alphanumerics a, Z and 0, the characters Azure
\* Table keys forbid, the percent and dollar signs, other reserved characters
\* and a lone surrogate.
KeyAlphabet == {"a", "Z", "0", "/", "\\", "#", "?", "%", "$", " ", "@", LoneSurrogate}

RECURSIVE Strings(_)
Strings(n) ==
  IF n = 0 THEN {<< >>}
  ELSE Strings(n - 1) \cup {Append(s, ch) : s \in Strings(n - 1), ch \in KeyAlphabet}

KeyInit ==
  /\ registry = << >>
  /\ now = StartTime
  /\ InitCalls
  /\ InitQueue
  /\ rawId \in Strings(MaxKeyLen) /\ rowKey = None
  /\ nudgeAfterSilentHours = DefaultNudgeAfterSilentHours /\ nudges = None
  /\ InitDirect

NormalizeRowKey ==
  /\ rowKey = None
  /\ rowKey' = Some(normalizeRowKeyCall(rawId))
  /\ UNCHANGED <<registry, archive, queue, call, now, unhandledRejections,
                 queueVars, rawId, nudgeVars, storageVars, batchVars>>

KeyNext == NormalizeRowKey

KeySpec == KeyInit /\ [][KeyNext]_vars

\* ------------------------------------------------------------------------
\* Relationship nudges
\* ------------------------------------------------------------------------
MaxSilentTicks == 7
MaxThresholdHours == 2

\* Variant: a contact that was never messaged is not reported.
findSilentContacts_SkipsNeverMessaged(contacts, silentHours, t) ==
  LET cutoff == t - silentHours * TicksPerHour
  IN SelectSeq(contacts, LAMBDA c : c.lastMessageAt # None
                                     /\ getTime(c.lastMessageAt[1]) < cutoff)

\* findSilentContacts after listContacts has returned contacts, at time t.
findSilentContacts(contacts, silentHours, t) ==
  LET cutoff == t - silentHours * TicksPerHour
  IN SelectSeq(contacts, LAMBDA c : IF c.lastMessageAt = None THEN TRUE
                                    ELSE getTime(c.lastMessageAt[1]) < cutoff)

\* Variant: the quotient is truncated.
MathRound_Floor(num, den) == num \div den

\* Math.round(num / den) for den > 0: floor(num / den + 1/2).
MathRound(num, den) == (2 * num + den) \div (2 * den)

buildNudge(contact, silentHours, t) ==
  LET hours == IF contact.lastMessageAt # None
                 THEN MathRound(t - getTime(contact.lastMessageAt[1]), TicksPerHour)
                 ELSE silentHours
  IN [contactName |-> contact.displayName,
      contactId |-> contact.rowKey,
      silentHours |-> hours,
      suggestion |-> IF contact.notes # None
                       THEN <<"acknowledge", contact.displayName, contact.notes[1]>>
                       ELSE <<"reach-out", hours, contact.displayName>>]

\* generateRelationshipNudges after listContacts has returned contacts.
generateRelationshipNudges(contacts, silentHours, t) ==
  LET silent == findSilentContacts(contacts, silentHours, t)
  IN [i \in 1..Len(silent) |-> buildNudge(silent[i], silentHours, t)]

\* The last-message timestamps a record can hold: none, or one written up to
\* MaxSilentTicks ago.
LastMessageAts ==
  {None} \cup {Some(toISOString(StartTime - age)) : age \in 0..MaxSilentTicks}

NudgeInit ==
  /\ \E la, lb \in LastMessageAts, nb \in {None, Some("birthday")} :
       registry = (normalizeRowKey(Alice) :>
                     [Contact(Alice, "Alice", TRUE) EXCEPT !.lastMessageAt = la])
                  @@ (normalizeRowKey(Bob) :>
                     [Contact(Bob, "Bob", FALSE) EXCEPT !.lastMessageAt = lb, !.notes = nb])
  /\ now = StartTime
  /\ InitCalls
  /\ InitQueue
  /\ rawId = << >> /\ rowKey = None
  /\ nudgeAfterSilentHours \in 0..MaxThresholdHours /\ nudges = None
  /\ InitDirect

\* generateRelationshipNudges runs: the listing arrives and the nudges are
\* built in the same turn.
GenerateRelationshipNudges ==
  /\ nudges = None
  /\ \E contacts \in listContacts(registry) :
       nudges' = Some(generateRelationshipNudges(contacts, nudgeAfterSilentHours, now))
  /\ UNCHANGED <<registry, archive, queue, call, now, unhandledRejections,
                 queueVars, keyVars, nudgeAfterSilentHours,
                 storageVars, batchVars>>

NudgeNext == GenerateRelationshipNudges

NudgeSpec == NudgeInit /\ [][NudgeNext]_vars

\* ------------------------------------------------------------------------
\* Nudges over time: messages of a known human are processed, their touches
\* complete, the clock advances and the nudges are generated
\* ------------------------------------------------------------------------
SilenceInit ==
  /\ registry = UrgencyTable
  /\ now = StartTime
  /\ InitCalls
  /\ InitQueue
  /\ rawId = << >> /\ rowKey = None
  /\ nudgeAfterSilentHours \in 1..MaxThresholdHours /\ nudges = None
  /\ InitDirect

StartTouching(c) ==
  StartWith(c, {Ctx(Some(Bob), None, Some("hi"), Some("m1"))}, {TRUE}, {TRUE})

SilenceNext ==
  \/ \E c \in Calls : StartTouching(c)
  \/ \E c \in Calls : GetEntityResponds(c)
  \/ \E c \in Calls : UpdateEntityResponds(c)
  \/ Tick
  \/ GenerateRelationshipNudges

SilenceSpec == SilenceInit /\ [][SilenceNext]_vars

\* ------------------------------------------------------------------------
\* Properties
\* ------------------------------------------------------------------------

\* C1: whenever classifySender has returned for a message whose effective
\* sender id has a record in the registry, the classification is
\* priority-human if the record's priority flag is set and known-human if it
\* is not, and the result carries that record (as read: the last-message
\* timestamp may have been touched since).
C1_RegisteredSenderClassified ==
  \A c \in Calls :
    LET r == call[c]
        key == normalizeRowKey(EffectiveSenderId(r.ctx))
    IN (r.classified # None /\ key \in DOMAIN registry) =>
         /\ r.classified[1].classification =
              (IF registry[key].isPriority THEN "priority-human" ELSE "known-human")
         /\ r.classified[1].contactEntry # None
         /\ r.classified[1].contactEntry[1] =
              [registry[key] EXCEPT !.lastMessageAt = r.classified[1].contactEntry[1].lastMessageAt]

C1_Witness ==
  \E c, d \in Calls :
    /\ EffectiveSenderId(call[c].ctx) = Alice /\ call[c].classified # None
    /\ call[c].classified[1].classification = "priority-human"
    /\ EffectiveSenderId(call[d].ctx) = Bob /\ call[d].classified # None
    /\ call[d].classified[1].classification = "known-human"

\* C2: whenever classifySender has returned for a message whose sender has
\* no record in the registry, the classification is system-noise and no
\* contact is attached; this covers SenderId = From = "".
C2_UnregisteredSenderIsNoise ==
  \A c \in Calls :
    LET r == call[c]
        key == normalizeRowKey(EffectiveSenderId(r.ctx))
    IN (r.classified # None /\ key \notin DOMAIN registry) =>
         /\ r.classified[1].classification = "system-noise"
         /\ r.classified[1].contactEntry = None

C2_Witness ==
  \E c, d \in Calls :
    /\ call[c].ctx.SenderId = Some(Empty) /\ call[c].ctx.From = Some(Empty)
    /\ call[c].classified # None /\ call[c].classified[1].classification = "system-noise"
    /\ call[d].ctx.SenderId = Some(Stranger)
    /\ call[d].classified # None /\ call[d].classified[1].classification = "system-noise"

\* C3: once a message of a priority contact is classified, applySovereignFilter
\* has returned {deliver-raw, priority-human}, the call has enqueued nothing
\* and sent nothing to the archive, and it has issued a timestamp touch for
\* the sender's row; the step that returns the outcome leaves the caller's
\* queue and the archive as they were.
C3_PriorityDeliveredRaw ==
  /\ [](\A c \in Calls :
          LET r == call[c]
              key == normalizeRowKey(EffectiveSenderId(r.ctx))
          IN (r.classified # None /\ key \in DOMAIN registry /\ registry[key].isPriority) =>
               /\ r.outcome = Some(Outcome("deliver-raw", "priority-human"))
               /\ r.enqueued = 0 /\ r.localQueue = << >>
               /\ \A i \in 1..Len(queue) : queue[i].call # c
               /\ r.archReq = None /\ r.archiveWrites = 0
               /\ r.touchReq # None /\ r.touchReq[1].rowKey = key)
  /\ [][\A c \in Calls :
          (call[c].outcome = None /\ call'[c].outcome # None
             /\ call'[c].outcome[1].classification = "priority-human") =>
            (queue' = queue /\ archive' = archive)]_vars

C3_Witness ==
  \E c \in Calls :
    /\ EffectiveSenderId(call[c].ctx) = Alice
    /\ call[c].outcome = Some(Outcome("deliver-raw", "priority-human"))
    /\ call[c].touchReq # None

\* C4: once a message of a non-priority contact is classified,
\* applySovereignFilter has returned {batch, known-human} and the call has
\* enqueued exactly once; the step that returns the outcome lengthens the
\* batch queue by exactly one message, appended after the messages already
\* there, whose body is the inbound Body unchanged (the empty string when the
\* message has no Body).
C4_KnownBatchedVerbatim ==
  /\ [](\A c \in Calls :
          LET r == call[c]
              key == normalizeRowKey(EffectiveSenderId(r.ctx))
          IN (r.classified # None /\ key \in DOMAIN registry /\ ~registry[key].isPriority) =>
               /\ r.outcome = Some(Outcome("batch", "known-human"))
               /\ r.enqueued = 1)
  /\ [][\A c \in Calls :
          (call[c].outcome = None /\ call'[c].outcome # None
             /\ call'[c].outcome[1].classification = "known-human") =>
            LET before == IF call'[c].queueGiven THEN queue ELSE call[c].localQueue
                after == IF call'[c].queueGiven THEN queue' ELSE call'[c].localQueue
            IN /\ size(after) = size(before) + 1
               /\ SubSeq(after, 1, size(before)) = before
               /\ after[size(after)].body =
                    (IF call'[c].ctx.Body # None THEN call'[c].ctx.Body[1] ELSE "")]_vars

C4_Witness ==
  \E c \in Calls :
    /\ call[c].outcome = Some(Outcome("batch", "known-human"))
    /\ call[c].ctx.Body = Some("hi")
    /\ size(queue) = 2 /\ queue[2].call = c /\ queue[2].body = "hi"

\* C5: once applySovereignFilter has returned for a message of an unknown
\* sender, the outcome is {archive, system-noise}, the call has written to
\* the archive exactly once and has enqueued nothing; the returning step
\* leaves the batch queue as it was.
C5_UnknownArchivedOnce ==
  /\ [](\A c \in Calls :
          LET r == call[c]
              key == normalizeRowKey(EffectiveSenderId(r.ctx))
          IN /\ (r.classified # None /\ key \notin DOMAIN registry) =>
                  (r.enqueued = 0 /\ r.localQueue = << >> /\ r.archReq # None
                     /\ r.archiveWrites <= 1
                     /\ \A i \in 1..Len(queue) : queue[i].call # c)
             /\ (r.outcome # None /\ key \notin DOMAIN registry) =>
                  (r.outcome = Some(Outcome("archive", "system-noise")) /\ r.archiveWrites = 1))
  /\ [][\A c \in Calls :
          (call[c].outcome = None /\ call'[c].outcome # None
             /\ call'[c].outcome[1].classification = "system-noise") =>
            (queue' = queue /\ call'[c].localQueue = call[c].localQueue)]_vars

C5_Witness ==
  \E c \in Calls :
    /\ EffectiveSenderId(call[c].ctx) = Stranger
    /\ call[c].outcome = Some(Outcome("archive", "system-noise"))
    /\ call[c].archiveWrites = 1

\* C6: an archive outcome is returned only after the call's archive write
\* has been stored; a call whose archive write failed has thrown that
\* failure to its caller, has no outcome, and never gets one.
C6_ArchiveBeforeOutcome ==
  /\ [](\A c \in Calls :
          LET r == call[c]
          IN /\ (r.outcome # None /\ r.outcome[1].action = "archive") =>
                  /\ r.archReq # None /\ r.archiveWrites = 1
                  /\ <<r.archReq[1].partitionKey, r.archReq[1].rowKey>> \in DOMAIN archive
             /\ (r.archReq # None /\ r.pc = "fault") =>
                  (r.thrown # None /\ r.outcome = None /\ r.returned = None /\ r.archiveWrites = 0))
  /\ [][\A c \in Calls : call[c].pc = "fault" => call'[c] = call[c]]_vars

C6_Witness ==
  \E c, d \in Calls :
    /\ call[c].archReq # None /\ call[c].pc = "fault" /\ call[c].thrown # None
    /\ call[d].outcome = Some(Outcome("archive", "system-noise"))

\* C7: a timestamp touch, whether pending, successful or failed, leaves the
\* call with the outcome of its classification and without a fault, and a
\* failed touch is swallowed or logged: it never becomes an unhandled
\* rejection.
C7_TouchFailureSwallowed ==
  /\ \A c \in Calls :
       call[c].touch # "none" =>
         /\ call[c].outcome \in {Some(Outcome("deliver-raw", "priority-human")),
                                 Some(Outcome("batch", "known-human"))}
         /\ call[c].pc # "fault" /\ call[c].thrown = None
  /\ unhandledRejections = 0

\* C8: a registry lookup that fails with anything but not-found makes the
\* call throw that failure: no classification, no outcome and no dispatch
\* result exist for it, and it has enqueued and archived nothing.
C8_LookupFaultPropagates ==
  \A c \in Calls :
    LET r == call[c]
    IN r.lookupFault # None =>
         /\ r.pc = "fault" /\ r.thrown = r.lookupFault
         /\ r.classified = None /\ r.outcome = None /\ r.returned = None
         /\ r.enqueued = 0 /\ r.localQueue = << >>
         /\ \A i \in 1..Len(queue) : queue[i].call # c
         /\ r.archReq = None /\ r.archiveWrites = 0
         /\ r.touch = "none"

C8_Witness ==
  \E c, d \in Calls :
    /\ call[c].lookupFault = Some(ServerError) /\ call[c].pc = "fault"
    /\ call[d].lookupFault = Some(NetworkError) /\ call[d].pc = "fault"

\* C9: a call made with the filter disabled goes to normal dispatch and, if
\* it has returned, returned intercepted = false; it has made no registry
\* lookup and no timestamp touch, sent nothing to the archive, enqueued
\* nothing, and has not marked the dispatcher complete.
C9_DisabledBypasses ==
  \A c \in Calls :
    LET r == call[c]
    IN (r.pc # "idle" /\ ~r.enabled) =>
         /\ r.pc \in {"dispatching", "done"} /\ r.dispatched /\ ~r.markedComplete
         /\ r.returned # None => ~r.returned[1].intercepted
         /\ r.lookups = 0 /\ r.touch = "none" /\ r.touchReq = None
         /\ r.archReq = None /\ r.archiveWrites = 0
         /\ r.enqueued = 0 /\ r.localQueue = << >>
         /\ \A i \in 1..Len(queue) : queue[i].call # c

C9_Witness ==
  \E c, d \in Calls :
    /\ ~call[c].enabled /\ call[c].pc = "done" /\ EffectiveSenderId(call[c].ctx) = Stranger
    /\ call[c].returned # None /\ ~call[c].returned[1].intercepted
    /\ ~call[d].enabled /\ call[d].pc = "done" /\ EffectiveSenderId(call[d].ctx) = Bob

\* C10: with the filter enabled, the dispatch result has intercepted = true
\* exactly when the outcome's action is batch or archive; an intercepted
\* call has marked the dispatcher complete and never invoked normal
\* dispatch, and a deliver-raw outcome went to normal dispatch and returns
\* intercepted = false.
C10_InterceptedIffBatchOrArchive ==
  \A c \in Calls :
    LET r == call[c]
    IN r.enabled =>
         /\ r.returned # None =>
              /\ r.outcome # None /\ r.returned[1].outcome = r.outcome[1]
              /\ r.returned[1].intercepted <=> r.outcome[1].action \in {"batch", "archive"}
         /\ (r.outcome # None /\ r.outcome[1].action \in {"batch", "archive"}) =>
              (r.markedComplete /\ ~r.dispatched /\ r.returned # None /\ r.pc = "done")
         /\ (r.outcome # None /\ r.outcome[1].action = "deliver-raw") =>
              (r.dispatched /\ ~r.markedComplete /\ r.pc \in {"dispatching", "done"})

C10_Witness ==
  \E c, d \in Calls :
    /\ call[c].enabled /\ call[c].returned # None /\ call[c].returned[1].intercepted
    /\ call[c].markedComplete
    /\ call[d].enabled /\ call[d].returned # None /\ ~call[d].returned[1].intercepted
    /\ call[d].dispatched


\* ------------------------------------------------------------------------
\* C11: with the filter enabled, a message classified priority-human is
\* delivered raw without the AI reply resolver ever being invoked for it.
\* ------------------------------------------------------------------------
C11_PriorityBypassesReplyResolver ==
  \A c \in Calls :
    LET r == call[c]
    IN (r.enabled /\ r.classified # None
          /\ r.classified[1].classification = "priority-human") => ~r.replyResolverInvoked

\* ------------------------------------------------------------------------
\* C16: every outcome applySovereignFilter has returned, and every outcome
\* carried by a result dispatchWithSovereignFilter has returned, is one of
\* the pairs (deliver-raw, priority-human), (batch, known-human) and
\* (archive, system-noise).
\* ------------------------------------------------------------------------
C16_OutcomeIsOneOfThreePairs ==
  LET pairs == { [action |-> "deliver-raw", classification |-> "priority-human"],
                 [action |-> "batch", classification |-> "known-human"],
                 [action |-> "archive", classification |-> "system-noise"] }
  IN \A c \in Calls :
       /\ call[c].outcome # None => call[c].outcome[1] \in pairs
       /\ call[c].returned # None => call[c].returned[1].outcome \in pairs

C16_Witness ==
  \E c, d \in Calls :
    /\ call[c].enabled /\ call[c].returned # None
    /\ call[c].returned[1].outcome.action = "batch"
    /\ call[d].enabled /\ call[d].returned # None
    /\ call[d].returned[1].outcome.action = "archive"

\* ------------------------------------------------------------------------
\* C17: the sender id a message is classified by is SenderId when that field
\* is present, otherwise From when present, otherwise the empty id.  Once
\* classifySender has returned, the classification is the one of that id's
\* registry record (system-noise when the id is empty or has no record), the
\* lookup was made for that id (none for the empty id), and a touch is
\* addressed to it.  A message whose SenderId is the empty string while its
\* From is not empty is the subject of C31 and is left out here.
\* ------------------------------------------------------------------------
C17_ClassifiedByEffectiveSender ==
  \A c \in Calls :
    LET r == call[c]
        id == IF r.ctx.SenderId # None THEN r.ctx.SenderId[1]
              ELSE IF r.ctx.From # None THEN r.ctx.From[1]
              ELSE << >>
        key == normalizeRowKey(id)
        emptyPrimary == r.ctx.SenderId = Some(Empty) /\ Coalesce(r.ctx.From, Empty) # Empty
    IN (r.classified # None /\ ~emptyPrimary) =>
         /\ r.lookups = (IF id = << >> THEN 0 ELSE 1)
         /\ r.classified[1].classification =
              (IF id # << >> /\ key \in DOMAIN registry
                 THEN (IF registry[key].isPriority THEN "priority-human" ELSE "known-human")
                 ELSE "system-noise")
         /\ r.classified[1].contactEntry # None =>
              r.classified[1].contactEntry[1].rowKey = key
         /\ r.touchReq # None => r.touchReq[1].rowKey = key

C17_Witness ==
  \E c \in Calls :
    /\ call[c].ctx.SenderId = None /\ call[c].ctx.From = Some(Bob)
    /\ call[c].classified # None
    /\ call[c].classified[1].classification = "known-human"
    /\ call[c].classified[1].contactEntry[1].rowKey = normalizeRowKey(Bob)

\* ------------------------------------------------------------------------
\* C12: a drain returns exactly the messages handed to enqueue since the
\* previous drain (since creation when there was none), in the order they
\* were enqueued and with repeated messages kept, and leaves the queue
\* empty; a drain that directly follows a drain returns the empty sequence.
\* ------------------------------------------------------------------------
C12_DrainReturnsEnqueuedSinceLastDrain ==
  [][lastOp' = "drain" =>
       /\ drained' = Some(sinceDrain)
       /\ queue' = << >>
       /\ lastOp = "drain" => drained' = Some(<< >>)]_vars

C12_Witness ==
  /\ lastOp = "drain"
  /\ drained # None /\ Len(drained[1]) = 2 /\ drained[1][1] = drained[1][2]
  /\ enqueueCalls = 3

\* ------------------------------------------------------------------------
\* C13: the size of a queue is the number of enqueue calls made since the
\* most recent drain (since creation when there was none), and every enqueue
\* call lengthens the queue by one whatever its length.
\* ------------------------------------------------------------------------
C13_SizeCountsEnqueuesSinceDrain ==
  /\ [](size(queue) = Len(sinceDrain))
  /\ [][lastOp' = "enqueue" => size(queue') = size(queue) + 1]_vars

C13_Witness ==
  /\ drained # None /\ Len(drained[1]) = 1
  /\ lastOp = "enqueue" /\ size(queue) = 2

\* ------------------------------------------------------------------------
\* C14: peek returns the messages enqueued since the last drain in the order
\* they were enqueued, and the peek leaves the queue's contents and size as
\* they were.
\* ------------------------------------------------------------------------
C14_PeekReturnsContentsUnchanged ==
  [][lastOp' = "peek" =>
       /\ peeked' # None /\ peeked'[1].items = sinceDrain
       /\ queue' = queue /\ size(queue') = size(queue)
       /\ sinceDrain' = sinceDrain]_vars

C14_Witness ==
  /\ lastOp = "peek"
  /\ peeked # None /\ Len(peeked[1].items) = 2 /\ peeked[1].items = queue
  /\ peeked[1].items[1] # peeked[1].items[2]

\* ------------------------------------------------------------------------
\* C15: the sequence peek returned shares nothing with the queue: a caller
\* changing that sequence leaves the queue's contents as they were, and an
\* enqueue leaves a sequence returned by an earlier peek as it was.
\* ------------------------------------------------------------------------
C15_PeekDoesNotAlias ==
  /\ [][lastOp' = "mutate" => queue' = queue]_vars
  /\ [][(lastOp' = "enqueue" /\ peeked # None) => peeked' = peeked]_vars

\* ------------------------------------------------------------------------
\* C18: a key returned by normalizeRowKey contains none of the characters
\* / \ # ? and no percent sign, and the key returned for an id made of ASCII
\* letters and digits only is the id itself.
\* ------------------------------------------------------------------------
C18_RowKeyHasNoForbiddenCharacter ==
  (rowKey # None /\ ~rowKey[1].threw) =>
    /\ \A i \in 1..Len(rowKey[1].key) : rowKey[1].key[i] \notin {"/", "\\", "#", "?", "%"}
    /\ (\A i \in 1..Len(rawId) : rawId[i] \in {"a", "Z", "0"}) => rowKey[1].key = rawId

C18_Witness ==
  /\ rowKey # None /\ ~rowKey[1].threw
  /\ \E i, j \in 1..Len(rawId) : rawId[i] = "/" /\ rawId[j] = "%"
  /\ Len(rowKey[1].key) > Len(rawId)

\* ------------------------------------------------------------------------
\* C19: the nudges generateRelationshipNudges returns hold exactly one nudge
\* for every registry contact whose last-message timestamp is absent or
\* lies more than the threshold before now, none for a contact whose last
\* message lies within the threshold, and no nudge for anything else.
\* ------------------------------------------------------------------------
C19_OneNudgePerSilentContact ==
  nudges # None =>
    LET ns == nudges[1]
        count(k) == Cardinality({i \in 1..Len(ns) : ns[i].contactId = k})
        limit == nudgeAfterSilentHours * TicksPerHour
    IN /\ \A i \in 1..Len(ns) : ns[i].contactId \in DOMAIN registry
       /\ \A k \in DOMAIN registry :
            LET last == registry[k].lastMessageAt
            IN /\ (last = None \/ now - getTime(last[1]) > limit) => count(k) = 1
               /\ (last # None /\ now - getTime(last[1]) <= limit) => count(k) = 0

C19_Witness ==
  /\ nudges # None /\ Len(nudges[1]) = 1
  /\ nudgeAfterSilentHours = 1
  /\ \E k, l \in DOMAIN registry :
       /\ nudges[1][1].contactId = k
       /\ registry[k].lastMessageAt # None
       /\ now - getTime(registry[k].lastMessageAt[1]) = TicksPerHour + 1
       /\ registry[l].lastMessageAt # None
       /\ now - getTime(registry[l].lastMessageAt[1]) = TicksPerHour

\* ------------------------------------------------------------------------
\* C20: the silentHours of a nudge for a contact with a last-message
\* timestamp is an integer nearest to the hours elapsed from that timestamp
\* to now (at most half an hour away from them); for a contact without a
\* timestamp it is the configured threshold.
\* ------------------------------------------------------------------------
C20_SilentHoursRoundedOrThreshold ==
  nudges # None =>
    \A i \in 1..Len(nudges[1]) :
      LET n == nudges[1][i]
          last == registry[n.contactId].lastMessageAt
          diff == n.silentHours * TicksPerHour - (now - getTime(last[1]))
      IN IF last # None
           THEN 2 * diff <= TicksPerHour /\ -2 * diff <= TicksPerHour
           ELSE n.silentHours = nudgeAfterSilentHours

C20_Witness ==
  /\ nudges # None /\ nudgeAfterSilentHours = 1
  /\ \E i, j \in 1..Len(nudges[1]) :
       /\ registry[nudges[1][i].contactId].lastMessageAt # None
       /\ nudges[1][i].silentHours = 2
       /\ now - getTime(registry[nudges[1][i].contactId].lastMessageAt[1]) = 2 * TicksPerHour - 1
       /\ registry[nudges[1][j].contactId].lastMessageAt = None
       /\ nudges[1][j].silentHours = 1

\* ------------------------------------------------------------------------
\* C21: however often a system-noise message with one channel-provided
\* message id is processed, the archive holds at most one entry for that id,
\* and exactly one once an archive write for it has succeeded.
\* ------------------------------------------------------------------------
C21_OneArchiveEntryPerMessageId ==
  LET entries == {k \in DOMAIN archive : archive[k].rowKey = <<"sid", "m1">>}
  IN /\ Cardinality(entries) <= 1
     /\ (\E c \in Calls : call[c].archiveWrites > 0) => Cardinality(entries) = 1

\* ------------------------------------------------------------------------
\* C22: whatever calls of dispatchWithSovereignFilter (and so of
\* applySovereignFilter) have run, the registry holds the records it held at
\* the start, none added and none removed, and every field of every record
\* other than lastMessageAt is as it was.
\* ------------------------------------------------------------------------
C22_RegistryOnlyTouched ==
  /\ DOMAIN registry = DOMAIN UrgencyTable
  /\ \A k \in DOMAIN registry :
       [registry[k] EXCEPT !.lastMessageAt = UrgencyTable[k].lastMessageAt] = UrgencyTable[k]

C22_Witness ==
  /\ \A k \in DOMAIN registry : registry[k].lastMessageAt # None
  /\ \A c \in Calls : call[c].touch = "settled"

\* ------------------------------------------------------------------------
\* C23: a touchContactLastMessage for a sender id without a registry record
\* returns without raising and leaves the registry as it was, unless the
\* backend fails otherwise; touchContactLastMessage raises exactly when the
\* backend reports a fault other than not-found.
\* ------------------------------------------------------------------------
C23_TouchToleratesMissingRecord ==
  [][(direct'.ops = direct.ops + 1 /\ direct'.op = "touchContactLastMessage") =>
       /\ (normalizeRowKey(direct'.senderId) \notin DOMAIN registry
             /\ direct'.backendErr \notin BackendFaults) =>
            (~direct'.threw /\ registry' = registry /\ direct'.backendErr = NotFound)
       /\ direct'.threw <=> direct'.backendErr \in BackendFaults]_vars

C23_Witness ==
  /\ direct.op = "touchContactLastMessage" /\ direct.senderId = Stranger
  /\ direct.backendErr = NotFound /\ ~direct.threw

\* ------------------------------------------------------------------------
\* C30: an upsertContact of a record exactly as getContact or listContacts
\* returned it, accepted by the backend, writes the record it was read from:
\* the registry has the same records as before, whatever the sender id.
\* ------------------------------------------------------------------------
C30_UpsertOfReadRecordKeepsIdentity ==
  [][(direct'.ops = direct.ops + 1 /\ direct'.op = "upsertContact" /\ ~direct'.threw) =>
       /\ DOMAIN registry' = DOMAIN registry
       /\ Cardinality(DOMAIN registry') = Cardinality(DOMAIN registry)]_vars

\* ------------------------------------------------------------------------
\* C24: for a known-human message the touch is started before the enqueue,
\* and in the step in which applySovereignFilter returns the batch outcome
\* the batched message is put on the queue, while the touch is still
\* pending: the return does not wait for the touch.
\* ------------------------------------------------------------------------
C24_EnqueuedAtReturnTouchPending ==
  /\ [](\A c \in Calls :
          (call[c].outcome # None /\ call[c].outcome[1].action = "batch") =>
             /\ call[c].effects = <<"touch", "enqueue">>
             /\ call[c].touch \in {"pending", "settled", "rejected"})
  /\ [][\A c \in Calls :
          (call[c].outcome = None /\ call'[c].outcome # None
             /\ call'[c].outcome[1].action = "batch") =>
            LET held == IF call'[c].queueGiven THEN queue' ELSE call'[c].localQueue
            IN /\ \E i \in 1..Len(held) : held[i].call = c
               /\ call'[c].touch = "pending"]_vars

C24_Witness ==
  \E c, d \in Calls :
    /\ call[c].outcome # None /\ call[c].outcome[1].action = "batch"
    /\ call[c].touch = "pending" /\ \E i \in 1..Len(queue) : queue[i].call = c
    /\ call[d].outcome # None /\ call[d].outcome[1].action = "batch"
    /\ call[d].touch = "settled" /\ \E i \in 1..Len(delivered) : delivered[i].call = d

\* ------------------------------------------------------------------------
\* C25: a message whose effective sender id is the empty string never
\* causes a registry lookup, and classifySender returns system-noise for it.
\* ------------------------------------------------------------------------
C25_EmptySenderNoLookup ==
  \A c \in Calls :
    LET r == call[c]
        id == IF r.ctx.SenderId # None THEN r.ctx.SenderId[1]
              ELSE IF r.ctx.From # None THEN r.ctx.From[1]
              ELSE << >>
    IN (r.pc # "idle" /\ r.enabled /\ id = << >>) =>
         /\ r.lookups = 0 /\ r.pc # "lookup" /\ r.lookupFault = None
         /\ r.classified # None
         /\ r.classified[1].classification = "system-noise"
         /\ r.classified[1].contactEntry = None

C25_Witness ==
  \E c, d \in Calls :
    /\ call[c].ctx.SenderId = None /\ call[c].ctx.From = None
    /\ call[c].outcome = Some(Outcome("archive", "system-noise")) /\ call[c].lookups = 0
    /\ call[d].ctx.SenderId = Some(Empty) /\ call[d].enabled
    /\ call[d].classified # None /\ call[d].lookups = 0

\* ------------------------------------------------------------------------
\* C26: with calls of applySovereignFilter on one shared batch queue
\* overlapping at their registry lookups and drains in between, every
\* message that got the batch outcome is exactly once in what the drains
\* have returned followed by the current queue, and nothing else is.
\* ------------------------------------------------------------------------
C26_BatchedExactlyOnce ==
  LET all == delivered \o queue
  IN \A c \in Calls :
       call[c].queueGiven =>
         Cardinality({i \in 1..Len(all) : all[i].call = c}) =
           (IF call[c].outcome # None /\ call[c].outcome[1].action = "batch" THEN 1 ELSE 0)

C26_Witness ==
  \E c, d \in Calls :
    /\ c # d /\ call[c].queueGiven /\ call[d].queueGiven
    /\ call[c].pc = "done" /\ call[d].pc = "done"
    /\ Len(delivered) = 1 /\ delivered[1].call = d
    /\ Len(queue) = 1 /\ queue[1].call = c

\* ------------------------------------------------------------------------
\* C27: the known-human messages in the batch queue are in the order in
\* which their calls of applySovereignFilter were started, also when the
\* calls overlap at their registry lookups.  (Calls start in the order of
\* their numbers.)
\* ------------------------------------------------------------------------
C27_QueueInArrivalOrder ==
  \A i, j \in 1..Len(queue) : i < j => queue[i].call < queue[j].call

\* ------------------------------------------------------------------------
\* C28: a message for which dispatchWithSovereignFilter has returned the
\* batch action is in the batch queue the caller drains, or in what a drain
\* of it has returned, whether or not the caller passed a batchQueue.
\* ------------------------------------------------------------------------
C28_BatchedIsDrainable ==
  \A c \in Calls :
    (call[c].returned # None /\ call[c].returned[1].outcome.action = "batch") =>
      LET all == delivered \o queue
      IN \E i \in 1..Len(all) : all[i].call = c

\* ------------------------------------------------------------------------
\* C29: when generateRelationshipNudges runs with a positive threshold, it
\* returns no nudge for a contact for which some message's touch has
\* completed successfully and was made (its timestamp taken) no more than
\* the threshold ago.
\* ------------------------------------------------------------------------
C29_NoNudgeWithinThresholdOfTouch ==
  [][(nudges = None /\ nudges' # None /\ nudgeAfterSilentHours > 0) =>
       \A c \in Calls :
         (call[c].touch = "settled"
            /\ now - getTime(call[c].touchReq[1].lastMessageAt)
                 <= nudgeAfterSilentHours * TicksPerHour) =>
           \A i \in 1..Len(nudges'[1]) :
             nudges'[1][i].contactId # call[c].touchReq[1].rowKey]_vars

\* ------------------------------------------------------------------------
\* C31: once classifySender has returned for a message whose SenderId is the
\* empty string and whose From is the id of a registry record, the
\* classification is that record's (priority-human when it is flagged
\* priority, known-human otherwise) with the record attached, and not
\* system-noise.
\* ------------------------------------------------------------------------
C31_EmptyPrimaryFallsBackToFrom ==
  \A c \in Calls :
    LET r == call[c]
        from == Coalesce(r.ctx.From, Empty)
        key == normalizeRowKey(from)
    IN (r.classified # None /\ r.ctx.SenderId = Some(Empty)
          /\ from # Empty /\ key \in DOMAIN registry) =>
         /\ r.classified[1].classification =
              (IF registry[key].isPriority THEN "priority-human" ELSE "known-human")
         /\ r.classified[1].contactEntry # None
         /\ r.classified[1].contactEntry[1].rowKey = key

============================================================================
